---------------------------- MODULE Spec2Model ----------------------------
(***************************************************************************)
(* Model of the two scripts of the repository.                             *)
(*                                                                         *)
(*   kadai6-1.py  resolves the coded columns of an e-Stat value table      *)
(*                with the CLASS_OBJ metadata and renames the columns.     *)
(*   kadai6-2.py  rebuilds one row per (area, timestamp) from the JMA      *)
(*                forecast document (parse_weather_data) and concatenates  *)
(*                the per-area tables (get_multiple_areas_weather).        *)
(*                                                                         *)
(* Python values are modelled as follows.                                  *)
(*   dict        a function whose DOMAIN is the set of keys                *)
(*   list        a sequence; Python index i is TLA+ index i + 1            *)
(*   None / x    the optional value <<>> / <<x>>                           *)
(*   str         a string; s1 + s2 and f"{a}{b}" are a \o b                *)
(* The Japanese dictionary keys and labels of the source are written in    *)
(* ASCII here: the row keys are named in the comment of NewRow, the two    *)
(* fixed column labels in the comment of BaseRenameDict, the area names    *)
(* in the comment of AREA_CODES.                                           *)
(***************************************************************************)
EXTENDS Integers, Sequences, FiniteSets, TLC

VARIABLES
    prog,             \* which entry point runs: "stats", "parse", "multi", "assemble"
    pc,               \* position in the running code
    exc,              \* the uncaught exception, <<>> while there is none
    \* ---- kadai6-2.py, parse_weather_data
    times,            \* times of the series being iterated (line 66)
    area,             \* the AreaBlock being iterated (line 68)
    weather_list,     \* line 62
    parse_result,     \* <<v>> once parse_weather_data has returned v (line 56 / 104)
    nblocks,          \* number of AreaBlocks iterated so far
    expected_rows,    \* history: sum of min(len(weathers), len(times)) so far
    \* ---- kadai6-2.py, get_multiple_areas_weather
    area_index,       \* number of entries of AREA_CODES iterated (line 115)
    responses,        \* history: what get_weather_data returned, per iteration
    all_weather_data, \* line 113
    multi_result,     \* what get_multiple_areas_weather returns
    \* ---- kadai6-2.py, the concatenation of lines 133-138 on its own
    table_rows,       \* the rows of a table T
    split,            \* T_part1 is the first split rows of T, T_part2 the rest
    asm_whole,        \* the table assembled from [T]
    asm_parts,        \* the table assembled from [T_part1, T_part2]
    asm_none,         \* the table assembled from []
    \* ---- kadai6-1.py
    meta_info,        \* line 31
    df0,              \* the table as built at line 28, kept for comparison
    df,               \* line 28; columns and, per row, the values in column order
    axis_index,       \* number of entries of meta_info iterated by the running loop
    col_replace_dict, \* line 51
    new_columns       \* line 58

parse_vars == <<times, area, weather_list, parse_result, nblocks,
                expected_rows>>

multi_vars == <<area_index, responses, all_weather_data, multi_result>>

asm_vars == <<table_rows, split, asm_whole, asm_parts, asm_none>>

stats_vars == <<meta_info, df0, df, axis_index, col_replace_dict, new_columns>>

vars == <<prog, pc, exc, parse_vars, multi_vars, asm_vars, stats_vars>>

----------------------------------------------------------------------------
(* Bounds of the model.                                                    *)

\* longest timeDefines / weathers / pops array; temps holds up to 2 * MaxLen
MaxLen == 2

\* number of AreaBlocks of one forecast document, over all its series
MaxBlocks == 2

\* number of rows of the table given to the concatenation on its own
MaxRows == 3

\* number of CLASS_OBJ entries of the metadata
MaxAxes == 2

\* number of entries of a CLASS list
MaxClass == 2

----------------------------------------------------------------------------
(* Python primitives.                                                      *)

None == <<>>

Some(v) == <<v>>

\* list[i] for a Python index i >= 0 is defined iff i < len(list)
InRange(list, i) == i >= 0 /\ i < Len(list)

At(list, i) == list[i + 1]

Min(a, b) == IF a < b THEN a ELSE b

\* a dict of one key
Dict1(key, value) == key :> value

\* d[key] = value
Put(d, key, value) == Dict1(key, value) @@ d

\* dict.get(key, default)
Get(d, key, default) == IF key \in DOMAIN d THEN d[key] ELSE default

\* pandas.DataFrame(list of dicts): a RangeIndex and the rows in list order
DataFrame(rows) == [index |-> [i \in 1..Len(rows) |-> i - 1], rows |-> rows]

\* DataFrame.empty
IsEmpty(frame) == Len(frame.rows) = 0

----------------------------------------------------------------------------
(* kadai6-2.py: the forecast document.  The arrays of a document hold      *)
(* values that name their own place (block b, position i), so that a value *)
(* copied to the wrong row is told apart from the right one.               *)

\* timeDefines[i] of a series: every series starts at the same day
TimeVal(i) == "2025-06-0" \o ToString(i + 1) \o "T00:00:00+09:00"

\* weathers[i] of the b-th AreaBlock of the document
WeatherVal(b, i) == "w" \o ToString(b) \o "-" \o ToString(i)

\* temps[i] of block b: block 1 holds "10","20","11","21","12","22",...
TempVal(b, i) == ToString(100 * (b - 1) + 10 * ((i % 2) + 1) + (i \div 2))

\* pops[i] of block b: block 1 holds "30","40","50",...
PopVal(b, i) == ToString(100 * (b - 1) + 30 + 10 * i)

\* area.code of the b-th AreaBlock
AreaCodeVal(b) == "1300" \o ToString(b) \o "0"

Times(n) == [i \in 1..n |-> TimeVal(i - 1)]

\* one optional array of an AreaBlock: n = -1 is "key absent"
OptArray(key, n, array) == IF n < 0 THEN <<>> ELSE Dict1(key, array)

\* the b-th AreaBlock with nw weathers, nt temps, np pops (-1: key absent)
AreaBlock(b, nw, nt, np) ==
    Dict1("area", [code |-> AreaCodeVal(b)])
    @@ OptArray("weathers", nw, [i \in 1..nw |-> WeatherVal(b, i - 1)])
    @@ OptArray("temps", nt, [i \in 1..nt |-> TempVal(b, i - 1)])
    @@ OptArray("pops", np, [i \in 1..np |-> PopVal(b, i - 1)])

NoArea == <<>>

----------------------------------------------------------------------------
(* kadai6-2.py: parse_weather_data, lines 44-104.                          *)

\* lines 76-84.  Keys of the source: area_name '地域' (chiiki), area_code
\* '地域コード', time '日時' (nichiji), weather '天気' (tenki), high '最高気温',
\* low '最低気温', pop '降水確率'.
NewRow(area_name, area_code, time, weather) ==
    [area_name |-> area_name, area_code |-> area_code, time |-> time,
     weather |-> weather, high |-> None, low |-> None, pop |-> None]

\* line 69
AreaCodeOf(a) == Get(Get(a, "area", <<>>), "code", "")

\* line 75
WeathersGuard(i, ts) == i < Len(ts)

\* line 91
TempsGuard(i, list) == i < Len(list)

\* line 101 with the bound off by one
PopsGuardOffByOne(i, list) == i <= Len(list)

\* line 101
PopsGuard(i, list) == i < Len(list)

\* A loop result: the list so far and whether an index was out of range
\* (Python raises IndexError and the loop ends there).
Ok(list) == [list |-> list, raised |-> FALSE]

IndexError(list) == [list |-> list, raised |-> TRUE]

\* lines 74-85, iterations i, i+1, ...
RECURSIVE WeathersLoop(_, _, _, _, _, _)
WeathersLoop(list, weathers, ts, area_name, area_code, i) ==
    IF i >= Len(weathers) THEN Ok(list)
    ELSE IF WeathersGuard(i, ts)
         THEN IF ~InRange(ts, i) THEN IndexError(list)
              ELSE WeathersLoop(
                       Append(list, NewRow(area_name, area_code, At(ts, i),
                                           At(weathers, i))),
                       weathers, ts, area_name, area_code, i + 1)
         ELSE WeathersLoop(list, weathers, ts, area_name, area_code, i + 1)

\* lines 72-85
WeathersPhase(list, a, ts, area_name) ==
    IF "weathers" \in DOMAIN a
    THEN WeathersLoop(list, a["weathers"], ts, area_name, AreaCodeOf(a), 0)
    ELSE Ok(list)

\* lines 90-95, iterations i, i+1, ...
RECURSIVE TempsLoop(_, _, _)
TempsLoop(list, temps, i) ==
    IF i >= Len(temps) THEN Ok(list)
    ELSE IF TempsGuard(i, list)
         THEN IF ~InRange(list, i \div 2) THEN IndexError(list)
              ELSE IF i % 2 = 0
                   THEN TempsLoop([list EXCEPT ![(i \div 2) + 1].low =
                                       Some(At(temps, i))], temps, i + 1)
                   ELSE TempsLoop([list EXCEPT ![(i \div 2) + 1].high =
                                       Some(At(temps, i))], temps, i + 1)
         ELSE TempsLoop(list, temps, i + 1)

\* lines 90-95 where a reading without a row creates the row
RECURSIVE TempsLoopCreatesRows(_, _, _)
TempsLoopCreatesRows(list, temps, i) ==
    IF i >= Len(temps) THEN Ok(list)
    ELSE LET l == IF InRange(list, i \div 2) THEN list
                  ELSE Append(list, NewRow("", "", "", ""))
         IN  IF i % 2 = 0
             THEN TempsLoopCreatesRows([l EXCEPT ![(i \div 2) + 1].low =
                                            Some(At(temps, i))], temps, i + 1)
             ELSE TempsLoopCreatesRows([l EXCEPT ![(i \div 2) + 1].high =
                                            Some(At(temps, i))], temps, i + 1)

TempsPhaseCreatesRows(list, a) ==
    IF "temps" \in DOMAIN a THEN TempsLoopCreatesRows(list, a["temps"], 0)
    ELSE Ok(list)

\* lines 88-95
TempsPhase(list, a) ==
    IF "temps" \in DOMAIN a THEN TempsLoop(list, a["temps"], 0) ELSE Ok(list)

\* line 102: f"{pop}%"
FormatPop(pop) == pop \o "%"

\* lines 100-102, iterations i, i+1, ...
RECURSIVE PopsLoop(_, _, _)
PopsLoop(list, pops, i) ==
    IF i >= Len(pops) THEN Ok(list)
    ELSE IF PopsGuard(i, list)
         THEN IF ~InRange(list, i) THEN IndexError(list)
              ELSE PopsLoop([list EXCEPT ![i + 1].pop =
                                 Some(FormatPop(At(pops, i)))], pops, i + 1)
         ELSE PopsLoop(list, pops, i + 1)

\* lines 98-102
PopsPhase(list, a) ==
    IF "pops" \in DOMAIN a THEN PopsLoop(list, a["pops"], 0) ELSE Ok(list)

\* the area_name argument of the stepwise run of parse_weather_data
ParseAreaName == "Tokyo"

\* the lengths an optional array of n elements at most may have; -1: absent
OptLen(n) == -1 .. n

\* the variables of an entry point that does not run
ParseIdle ==
    /\ times = <<>>
    /\ area = NoArea
    /\ weather_list = <<>>
    /\ parse_result = None
    /\ nblocks = 0
    /\ expected_rows = 0

MultiIdle ==
    /\ area_index = 0
    /\ responses = <<>>
    /\ all_weather_data = <<>>
    /\ multi_result = None

AsmIdle ==
    /\ table_rows = <<>>
    /\ split = 0
    /\ asm_whole = None
    /\ asm_parts = None
    /\ asm_none = None

StatsIdle ==
    /\ meta_info = <<>>
    /\ df0 = <<>>
    /\ df = <<>>
    /\ axis_index = 0
    /\ col_replace_dict = <<>>
    /\ new_columns = <<>>

InitParse ==
    /\ prog = "parse"
    /\ pc = "entry"
    /\ exc = None
    /\ ParseIdle
    /\ MultiIdle
    /\ AsmIdle
    /\ StatsIdle

\* lines 55-62: data is None, [] or [forecast_data, ...]
ParseEntry ==
    /\ prog = "parse" /\ pc = "entry"
    /\ \E data \in {"None", "[]", "[doc]"} :
          IF data \in {"None", "[]"}
          THEN /\ parse_result' = Some(None)
               /\ pc' = "done"
          ELSE /\ parse_result' = parse_result
               /\ pc' = "series"
    /\ weather_list' = <<>>
    /\ UNCHANGED <<prog, multi_vars, asm_vars, stats_vars, exc, times, area,
                   nblocks, expected_rows>>

\* lines 64-66: the next series of time_series
NextSeries ==
    /\ prog = "parse" /\ pc = "series"
    /\ \E n \in 0..MaxLen : times' = Times(n)
    /\ pc' = "areas"
    /\ UNCHANGED <<prog, multi_vars, asm_vars, stats_vars, exc, area,
                   weather_list, parse_result, nblocks, expected_rows>>

\* an IndexError leaves the function: nothing is returned
Continue(r, next) ==
    /\ weather_list' = r.list
    /\ IF r.raised
       THEN pc' = "raised" /\ exc' = Some("IndexError")
       ELSE pc' = next /\ exc' = exc

\* lines 68-85: the next area of the series, and its weathers
AreaWeathers ==
    /\ prog = "parse" /\ pc = "areas"
    /\ nblocks < MaxBlocks
    /\ \E nw \in OptLen(MaxLen), nt \in OptLen(2 * MaxLen), np \in OptLen(MaxLen) :
          LET a == AreaBlock(nblocks + 1, nw, nt, np) IN
          /\ area' = a
          /\ Continue(WeathersPhase(weather_list, a, times, ParseAreaName), "temps")
          /\ expected_rows' = expected_rows +
                 (IF nw >= 0 THEN Min(nw, Len(times)) ELSE 0)
    /\ nblocks' = nblocks + 1
    /\ UNCHANGED <<prog, multi_vars, asm_vars, stats_vars, times,
                   parse_result>>

\* lines 87-95
AreaTemps ==
    /\ prog = "parse" /\ pc = "temps"
    /\ Continue(TempsPhase(weather_list, area), "pops")
    /\ UNCHANGED <<prog, multi_vars, asm_vars, stats_vars, times, area,
                   parse_result, nblocks, expected_rows>>

\* lines 97-102
AreaPops ==
    /\ prog = "parse" /\ pc = "pops"
    /\ Continue(PopsPhase(weather_list, area), "areas")
    /\ area' = NoArea
    /\ UNCHANGED <<prog, multi_vars, asm_vars, stats_vars, times,
                   parse_result, nblocks, expected_rows>>

\* line 68: the areas of the series are exhausted.  The loop variables
\* series, times and area are dead from here to their next assignment.
EndSeries ==
    /\ prog = "parse" /\ pc = "areas"
    /\ pc' = "series"
    /\ times' = <<>>
    /\ area' = NoArea
    /\ UNCHANGED <<prog, multi_vars, asm_vars, stats_vars, exc, weather_list,
                   parse_result, nblocks, expected_rows>>

\* line 104
ParseReturn ==
    /\ prog = "parse" /\ pc = "series"
    /\ parse_result' = Some(Some(DataFrame(weather_list)))
    /\ pc' = "done"
    /\ UNCHANGED <<prog, multi_vars, asm_vars, stats_vars, exc, times, area,
                   weather_list, nblocks, expected_rows>>

NextParse ==
    \/ ParseEntry
    \/ NextSeries
    \/ AreaWeathers
    \/ AreaTemps
    \/ AreaPops
    \/ EndSeries
    \/ ParseReturn

SpecParse == InitParse /\ [][NextParse]_vars

----------------------------------------------------------------------------
(* Properties of parse_weather_data.                                       *)

HasKey(a, key) == key \in DOMAIN a

\* the block being iterated has n >= 1 weathers, n times and 2n temps
PairedBlock ==
    /\ HasKey(area, "weathers") /\ HasKey(area, "temps")
    /\ Len(area["weathers"]) >= 1
    /\ Len(area["weathers"]) = Len(times)
    /\ Len(area["temps"]) = 2 * Len(times)

\* C1: temperature de-interleaving.  When the only AreaBlock of the document
\* has n >= 1 timestamps, n weathers and 2n temps, then once its temps are
\* processed every row k < n holds low = temps[2k] and high = temps[2k+1]
\* (the steps that follow, pops and the return, leave both fields alone).
C1_Deinterleaved ==
    (prog = "parse" /\ pc = "pops" /\ nblocks = 1 /\ PairedBlock)
    => /\ Len(weather_list) = Len(times)
       /\ \A k \in 0..(Len(times) - 1) :
             /\ At(weather_list, k).low = Some(At(area["temps"], 2 * k))
             /\ At(weather_list, k).high = Some(At(area["temps"], 2 * k + 1))

\* C3: rows are created by weathers only.  The number of rows is at every
\* step the sum, over the AreaBlocks iterated so far, of
\* min(len(weathers), len(timeDefines)) for those that carry weathers; the
\* temps and pops of a block never change it, and the table returned has
\* that many rows.
C3_RowsFromWeathersOnly ==
    prog = "parse" =>
      /\ Len(weather_list) = expected_rows
      /\ (pc = "done" /\ parse_result[1] # None)
            => Len(parse_result[1][1].rows) = expected_rows

\* C3 witness: the temps of a block without weathers have been applied to
\* rows of an earlier block, and no row was added.
C3_Witness ==
    /\ prog = "parse" /\ pc = "pops"
    /\ HasKey(area, "temps") /\ Len(area["temps"]) = 2
    /\ ~HasKey(area, "weathers")
    /\ nblocks = 2
    /\ Len(weather_list) >= 1
    /\ At(weather_list, 0).low = Some(At(area["temps"], 0))

\* the block and position a row was created from, read off its weather
OriginOf(row) ==
    CHOOSE o \in (1..MaxBlocks) \X (0..(MaxLen - 1)) :
        row.weather = WeatherVal(o[1], o[2])

\* C4: per-row positional alignment.  A row created from weathers[i] of
\* block b holds a precipitation probability that is unset or pops[i] + "%"
\* of block b, a low temperature that is unset or temps[2i] of block b, and
\* a high temperature that is unset or temps[2i+1] of block b.
C4_RowsAligned ==
    prog = "parse" =>
      \A k \in 1..Len(weather_list) :
        LET row == weather_list[k]
            b == OriginOf(row)[1]
            i == OriginOf(row)[2]
        IN  /\ row.time = TimeVal(i)
            /\ row.pop \in {None, Some(PopVal(b, i) \o "%")}
            /\ row.low \in {None, Some(TempVal(b, 2 * i))}
            /\ row.high \in {None, Some(TempVal(b, 2 * i + 1))}

\* C10: index safety.  No access times[i], weather_list[i // 2] or
\* weather_list[i] is out of range, whatever the arrays of the blocks, and
\* the function returns: None for an empty document, a table otherwise.
C10_IndexSafe ==
    prog = "parse" =>
      /\ pc # "raised" /\ exc = None
      /\ pc = "done" => parse_result # None

\* C10 witness: temps of odd length, longer than the row list, of a block
\* without weathers, have been processed against a non-empty row list.
C10_Witness ==
    /\ prog = "parse" /\ pc = "pops" /\ exc = None
    /\ HasKey(area, "temps") /\ ~HasKey(area, "weathers")
    /\ Len(area["temps"]) % 2 = 1
    /\ Len(area["temps"]) > Len(weather_list)
    /\ Len(weather_list) >= 1

----------------------------------------------------------------------------
(* kadai6-2.py: parse_weather_data as a function of a whole document.      *)

\* lines 68-102 for the areas j, j+1, ... of one series
RECURSIVE ParseAreas(_, _, _, _, _)
ParseAreas(list, areas, ts, area_name, j) ==
    IF j >= Len(areas) THEN Ok(list)
    ELSE LET a == At(areas, j)
             w == WeathersPhase(list, a, ts, area_name)
             t == TempsPhase(w.list, a)
             p == PopsPhase(t.list, a)
         IN  IF w.raised THEN w
             ELSE IF t.raised THEN t
             ELSE IF p.raised THEN p
             ELSE ParseAreas(p.list, areas, ts, area_name, j + 1)

\* lines 64-102 for the series s, s+1, ... of time_series
RECURSIVE ParseSeries(_, _, _, _)
ParseSeries(list, time_series, area_name, s) ==
    IF s >= Len(time_series) THEN Ok(list)
    ELSE LET series == At(time_series, s)
             r == ParseAreas(list, Get(series, "areas", <<>>),
                             Get(series, "timeDefines", <<>>), area_name, 0)
         IN  IF r.raised THEN r
             ELSE ParseSeries(r.list, time_series, area_name, s + 1)

\* "if x:" for x None or a list
Truthy(x) == x # None /\ Len(x[1]) > 0

\* lines 55-104: data is None or <<list>>; the value is None or <<DataFrame>>
ParseWeatherData(data, area_name) ==
    IF ~Truthy(data) THEN [value |-> None, raised |-> FALSE]
    ELSE LET r == ParseSeries(<<>>, Get(At(data[1], 0), "timeSeries", <<>>),
                              area_name, 0)
         IN  [value |-> IF r.raised THEN None ELSE Some(DataFrame(r.list)),
              raised |-> r.raised]

----------------------------------------------------------------------------
(* kadai6-2.py: get_multiple_areas_weather, lines 106-138.                 *)

\* lines 11-22, in insertion order.  The names of the source are, in
\* order: 東京都, 神奈川県, 千葉県, 埼玉県, 大阪府, 愛知県, 北海道, 宮城県,
\* 鹿児島県, 沖縄県.
AREA_CODES ==
    << [code |-> "130000", name |-> "Tokyo-to"],
       [code |-> "140000", name |-> "Kanagawa-ken"],
       [code |-> "120000", name |-> "Chiba-ken"],
       [code |-> "110000", name |-> "Saitama-ken"],
       [code |-> "270000", name |-> "Osaka-fu"],
       [code |-> "230000", name |-> "Aichi-ken"],
       [code |-> "010000", name |-> "Hokkaido"],
       [code |-> "040000", name |-> "Miyagi-ken"],
       [code |-> "460000", name |-> "Kagoshima-ken"],
       [code |-> "470000", name |-> "Okinawa-ken"] >>

\* What get_weather_data (lines 24-42) may return for the k-th area:
\*   "failed"  None, after a RequestException (line 42)
\*   "norows"  a document without any series
\*   "rows"    a document of two series: weathers and pops of one area,
\*             then temps of another
ResponseKinds == {"failed", "norows", "rows"}

Response(kind, k) ==
    CASE kind = "failed" -> None
      [] kind = "norows" -> Some(<<[timeSeries |-> <<>>]>>)
      [] kind = "rows" ->
           Some(<< [timeSeries |->
                     << [timeDefines |-> Times(2),
                         areas |-> <<AreaBlock(1, 1 + (k % 2), -1, 1)>>],
                        [timeDefines |-> Times(1),
                         areas |-> <<AreaBlock(2, -1, 2, -1)>>] >>] >>)

\* the rows of the tables i, i+1, ... of a list, in order
RECURSIVE ConcatRows(_, _)
ConcatRows(dfs, i) ==
    IF i >= Len(dfs) THEN <<>> ELSE At(dfs, i).rows \o ConcatRows(dfs, i + 1)

\* a wrong concatenation: the last table only
PdConcatKeepsLast(dfs) == At(dfs, Len(dfs) - 1)

\* line 135: pd.concat(dfs, ignore_index=True), a fresh RangeIndex
PdConcat(dfs) == DataFrame(ConcatRows(dfs, 0))

\* lines 133-138
Assemble(dfs) == IF Len(dfs) > 0 THEN PdConcat(dfs) ELSE DataFrame(<<>>)

\* lines 121-131 with the loop left at the first failed fetch
LoopAfterStopsAtFailure(k, weather_data) ==
    IF Truthy(weather_data) THEN k + 1 ELSE Len(AREA_CODES)

\* line 115: the loop goes on to the next area whatever lines 121-131 did;
\* k is the number of areas iterated
LoopAfter(k, weather_data) == k + 1

\* lines 121-131: the tables collected after one area
Collect(dfs, parsed) ==
    IF parsed # None /\ ~IsEmpty(parsed[1]) THEN Append(dfs, parsed[1]) ELSE dfs

InitMulti ==
    /\ prog = "multi"
    /\ pc = "loop"
    /\ exc = None
    /\ ParseIdle
    /\ MultiIdle
    /\ AsmIdle
    /\ StatsIdle

\* lines 115-131: one iteration of the loop over AREA_CODES
FetchArea ==
    /\ prog = "multi" /\ pc = "loop"
    /\ area_index < Len(AREA_CODES)
    /\ \E kind \in ResponseKinds :
          LET k == area_index
              weather_data == Response(kind, k)
              parsed == ParseWeatherData(weather_data, At(AREA_CODES, k).name)
          IN  /\ responses' = Append(responses, kind)
              /\ area_index' = LoopAfter(k, weather_data)
              /\ IF Truthy(weather_data) /\ parsed.raised
                 THEN /\ pc' = "raised"
                      /\ exc' = Some("IndexError")
                      /\ all_weather_data' = all_weather_data
                 ELSE /\ pc' = pc
                      /\ exc' = exc
                      /\ all_weather_data' =
                             IF Truthy(weather_data)
                             THEN Collect(all_weather_data, parsed.value)
                             ELSE all_weather_data
    /\ UNCHANGED <<prog, parse_vars, asm_vars, stats_vars, multi_result>>

\* lines 133-138
Combine ==
    /\ prog = "multi" /\ pc = "loop"
    /\ area_index >= Len(AREA_CODES)
    /\ multi_result' = Some(Assemble(all_weather_data))
    /\ pc' = "done"
    /\ UNCHANGED <<prog, exc, parse_vars, asm_vars, stats_vars, area_index,
                   responses, all_weather_data>>

NextMulti ==
    \/ FetchArea
    \/ Combine

SpecMulti == InitMulti /\ [][NextMulti]_vars

----------------------------------------------------------------------------
(* Properties of get_multiple_areas_weather.                               *)

\* the rows parse_weather_data makes of the k-th response
RowsOfArea(k) ==
    LET parsed == ParseWeatherData(Response(At(responses, k), k),
                                   At(AREA_CODES, k).name)
    IN  IF parsed.value = None THEN <<>> ELSE parsed.value[1].rows

RECURSIVE SumRows(_)
SumRows(k) == IF k < 0 THEN 0 ELSE Len(RowsOfArea(k)) + SumRows(k - 1)

RowsNamed(rows, name) ==
    LET Named(row) == row.area_name = name IN SelectSeq(rows, Named)

\* C5: a failed fetch skips its area only.  When the function returns, every
\* configured area has been iterated; the table holds no row of an area
\* whose fetch failed, holds the rows of every other area, in their order,
\* and its row count is the sum of the row counts of the areas fetched.
C5_FailedAreaSkipped ==
    (prog = "multi" /\ pc = "done") =>
      /\ Len(responses) = Len(AREA_CODES)
      /\ multi_result # None
      /\ \A k \in 0..(Len(AREA_CODES) - 1) :
            RowsNamed(multi_result[1].rows, At(AREA_CODES, k).name) =
                IF At(responses, k) = "failed" THEN <<>> ELSE RowsOfArea(k)
      /\ Len(multi_result[1].rows) = SumRows(Len(AREA_CODES) - 1)

\* C5 witness: the function returned after exactly one fetch failed, the
\* third, and every other area gave rows.
C5_Witness ==
    /\ prog = "multi" /\ pc = "done"
    /\ Len(responses) = Len(AREA_CODES)
    /\ \A k \in 0..(Len(AREA_CODES) - 1) :
          At(responses, k) = IF k = 2 THEN "failed" ELSE "rows"
    /\ Len(multi_result[1].rows) = 14

----------------------------------------------------------------------------
(* kadai6-2.py: the concatenation of lines 133-138 applied to a table T    *)
(* as one source, to T cut in two sources, and to no source at all.        *)

\* the rows a source table is made of
RowValues ==
    { NewRow("Tokyo-to", "130010", TimeVal(0), WeatherVal(1, 0)),
      NewRow("Osaka-fu", "270000", TimeVal(1), WeatherVal(2, 1)) }

RowSeqs(n) == UNION { [1..m -> RowValues] : m \in 0..n }

InitAssemble ==
    /\ prog = "assemble"
    /\ pc = "loop"
    /\ exc = None
    /\ ParseIdle
    /\ MultiIdle
    /\ StatsIdle
    /\ table_rows \in RowSeqs(MaxRows)
    /\ split \in 0..Len(table_rows)
    /\ asm_whole = None
    /\ asm_parts = None
    /\ asm_none = None

\* T_part1 and T_part2, each a table with an index of its own
Part1 == DataFrame(SubSeq(table_rows, 1, split))

Part2 == DataFrame(SubSeq(table_rows, split + 1, Len(table_rows)))

\* lines 133-138 with all_weather_data = [T]
AssembleWhole ==
    /\ prog = "assemble" /\ asm_whole = None
    /\ asm_whole' = Some(Assemble(<<DataFrame(table_rows)>>))
    /\ UNCHANGED <<prog, pc, exc, parse_vars, multi_vars, stats_vars,
                   table_rows, split, asm_parts, asm_none>>

\* lines 133-138 with all_weather_data = [T_part1, T_part2]
AssembleParts ==
    /\ prog = "assemble" /\ asm_parts = None
    /\ asm_parts' = Some(Assemble(<<Part1, Part2>>))
    /\ UNCHANGED <<prog, pc, exc, parse_vars, multi_vars, stats_vars,
                   table_rows, split, asm_whole, asm_none>>

\* lines 133-138 with all_weather_data = []
AssembleNone ==
    /\ prog = "assemble" /\ asm_none = None
    /\ asm_none' = Some(Assemble(<<>>))
    /\ UNCHANGED <<prog, pc, exc, parse_vars, multi_vars, stats_vars,
                   table_rows, split, asm_whole, asm_parts>>

NextAssemble ==
    \/ AssembleWhole
    \/ AssembleParts
    \/ AssembleNone

SpecAssemble == InitAssemble /\ [][NextAssemble]_vars

\* C9: the assembled table depends on the row sequence only.  The table
\* assembled from [T] and the one assembled from [T_part1, T_part2], with
\* T = T_part1 ++ T_part2, hold the same rows in the same order, which are
\* the rows of T, under the same fresh index; and the table assembled from
\* no source is a table without rows, not an absent value.
C9_PartitionIndependent ==
    prog = "assemble" =>
      /\ (asm_whole # None /\ asm_parts # None) =>
            /\ asm_whole[1].rows = asm_parts[1].rows
            /\ asm_parts[1].rows = table_rows
            /\ asm_whole[1].index = asm_parts[1].index
      /\ asm_none # None => (asm_none[1].rows = <<>> /\ IsEmpty(asm_none[1]))

\* C9 witness: a table of three rows cut after its first row was assembled
\* both ways, and the empty list of sources was assembled too.
C9_Witness ==
    /\ prog = "assemble"
    /\ Len(table_rows) = 3 /\ split = 1
    /\ table_rows[1] # table_rows[2]
    /\ asm_whole # None /\ asm_parts # None /\ asm_none # None

----------------------------------------------------------------------------
(* kadai6-1.py: the value table and the classification metadata.           *)

\* the codes of the value rows; "9" is a code no CLASS entry describes
Codes == <<"1", "2", "9">>

\* the column lists of the value table: every column; the value column
\* first and no unit; no column for the axis cat01
ColumnLists ==
    { <<"@tab", "@cat01", "@time", "@unit", "$">>,
      <<"$", "@cat01", "@tab">>,
      <<"@tab", "@time", "$">> }

CellValue(column, code) ==
    CASE column \in {"@tab", "@cat01"} -> code
      [] column = "@time" -> "2020000000"
      [] column = "@unit" -> "nin"
      [] OTHER -> "100"

\* line 28: one row per code, the values in column order
ValueTable(columns) ==
    [columns |-> columns,
     data |-> [r \in 1..Len(Codes) |->
                 [c \in 1..Len(columns) |-> CellValue(columns[c], Codes[r])]]]

\* CLASS entries; the label of EntryB is the code of EntryA
EntryA == Dict1("@code", "1") @@ Dict1("@name", "Male")

EntryB == Dict1("@code", "2") @@ Dict1("@name", "1")

EntryNoCode == Dict1("@name", "Female")

EntryNoName == Dict1("@code", "1")

\* the value of the key CLASS: one entry, or a list of entries
Single(entry) == [list |-> FALSE, value |-> entry]

List(entries) == [list |-> TRUE, value |-> entries]

ClassLists(n) == UNION { [1..m -> {EntryA, EntryB}] : m \in 0..n }

GoodClasses ==
    { Single(e) : e \in {EntryA, EntryB} }
    \cup { List(l) : l \in ClassLists(MaxClass) }

\* an axis before it is given its place in meta_info: the axis tab with
\* every CLASS, the axis cat01 with two of them, and the four malformed axes
AxisShapes ==
    { [id |-> Some("tab"), named |-> TRUE, class |-> c] : c \in GoodClasses }
    \cup { [id |-> Some("cat01"), named |-> TRUE, class |-> c] :
               c \in {Single(EntryB), List(<<EntryA, EntryB>>)} }
    \cup { [id |-> None, named |-> TRUE, class |-> Single(EntryA)],
           [id |-> Some("tab"), named |-> FALSE, class |-> Single(EntryA)],
           [id |-> Some("tab"), named |-> TRUE,
            class |-> List(<<EntryA, EntryNoCode>>)],
           [id |-> Some("tab"), named |-> TRUE, class |-> Single(EntryNoName)] }

\* the '@name' of the k-th class_obj
AxisName(k) == "Name" \o ToString(k)

\* the k-th class_obj of meta_info
ClassObj(shape, k) ==
    (IF shape.id = None THEN <<>> ELSE Dict1("@id", shape.id[1]))
    @@ (IF shape.named THEN Dict1("@name", AxisName(k)) ELSE <<>>)
    @@ Dict1("CLASS", shape.class)

MetaInfos ==
    UNION { { [k \in 1..m |-> ClassObj(shapes[k], k)] :
                  shapes \in [1..m -> AxisShapes] } : m \in 0..MaxAxes }

----------------------------------------------------------------------------
(* kadai6-1.py, lines 33-65.                                               *)

\* d[key] of a dict without the key
KeyError(key, line) == [type |-> "KeyError", key |-> key, line |-> line]

\* position of a column, 0 when the table has no such column
ColumnIndex(columns, name) ==
    IF \E c \in 1..Len(columns) : columns[c] = name
    THEN CHOOSE c \in 1..Len(columns) : columns[c] = name
    ELSE 0

\* lines 42-43 for the entries i, i+1, ... of a CLASS list: the dict, or
\* the KeyError of an entry without '@code' or '@name'
RECURSIVE ClassListDict(_, _, _)
ClassListDict(d, entries, i) ==
    IF i >= Len(entries) THEN [dict |-> d, exc |-> None]
    ELSE LET obj == At(entries, i) IN
         IF "@name" \notin DOMAIN obj
         THEN [dict |-> d, exc |-> Some(KeyError("@name", 43))]
         ELSE IF "@code" \notin DOMAIN obj
         THEN [dict |-> d, exc |-> Some(KeyError("@code", 43))]
         ELSE ClassListDict(Put(d, obj["@code"], obj["@name"]), entries, i + 1)

\* lines 40-45
IdToNameDict(class) ==
    IF class.list THEN ClassListDict(<<>>, class.value, 0)
    ELSE IF "@name" \notin DOMAIN class.value
    THEN [dict |-> <<>>, exc |-> Some(KeyError("@name", 45))]
    ELSE IF "@code" \notin DOMAIN class.value
    THEN [dict |-> <<>>, exc |-> Some(KeyError("@code", 45))]
    ELSE [dict |-> Dict1(class.value["@code"], class.value["@name"]),
          exc |-> None]

\* a replacement that keeps the matched values only, as Series.map does
ReplaceAsMap(value, d) == IF value \in DOMAIN d THEN d[value] ELSE "NaN"

\* line 48, Series.replace(dict) on one value: every value is matched
\* against the keys as they were before any replacement
Replace(value, d) == IF value \in DOMAIN d THEN d[value] ELSE value

\* line 48: df[column_name] = df[column_name].replace(id_to_name_dict)
ReplaceColumn(table, c, d) ==
    [table EXCEPT !.data =
        [r \in 1..Len(table.data) |->
            [table.data[r] EXCEPT ![c] = Replace(table.data[r][c], d)]]]

\* lines 37-48 for one class_obj: the table, or the first KeyError
ResolveOne(table, class_obj) ==
    IF "@id" \notin DOMAIN class_obj
    THEN [df |-> table, exc |-> Some(KeyError("@id", 37))]
    ELSE LET column_name == "@" \o class_obj["@id"]
             built == IdToNameDict(class_obj["CLASS"])
             c == ColumnIndex(table.columns, column_name)
         IN  IF built.exc # None THEN [df |-> table, exc |-> built.exc]
             ELSE IF c = 0
             THEN [df |-> table, exc |-> Some(KeyError(column_name, 48))]
             ELSE [df |-> ReplaceColumn(table, c, built.dict), exc |-> None]

\* line 51.  The labels of the source are '単位' (tan-i, unit) and '値'
\* (atai, value).
BaseRenameDict == Dict1("@unit", "tan-i") @@ Dict1("$", "atai")

\* lines 53-55 for one class_obj: the dict, or the first KeyError
RenameOne(d, class_obj) ==
    IF "@id" \notin DOMAIN class_obj
    THEN [dict |-> d, exc |-> Some(KeyError("@id", 53))]
    ELSE IF "@name" \notin DOMAIN class_obj
    THEN [dict |-> d, exc |-> Some(KeyError("@name", 54))]
    ELSE [dict |-> Put(d, "@" \o class_obj["@id"], class_obj["@name"]),
          exc |-> None]

\* lines 58-63 where a column without an entry is left out
RECURSIVE NewColumnsDropsUnmapped(_, _, _)
NewColumnsDropsUnmapped(columns, d, i) ==
    IF i >= Len(columns) THEN <<>>
    ELSE (IF At(columns, i) \in DOMAIN d THEN <<d[At(columns, i)]>> ELSE <<>>)
         \o NewColumnsDropsUnmapped(columns, d, i + 1)

\* lines 58-63 for the columns i, i+1, ...
RECURSIVE NewColumns(_, _, _)
NewColumns(columns, d, i) ==
    IF i >= Len(columns) THEN <<>>
    ELSE (IF At(columns, i) \in DOMAIN d
          THEN <<d[At(columns, i)]>> ELSE <<At(columns, i)>>)
         \o NewColumns(columns, d, i + 1)

InitStats ==
    /\ prog = "stats"
    /\ pc = "resolve"
    /\ exc = None
    /\ ParseIdle
    /\ MultiIdle
    /\ AsmIdle
    /\ meta_info \in MetaInfos
    /\ \E columns \in ColumnLists : df0 = ValueTable(columns)
    /\ df = df0
    /\ axis_index = 0
    /\ col_replace_dict = <<>>
    /\ new_columns = <<>>

\* lines 34-48: one iteration of the first loop over meta_info
ResolveAxis ==
    /\ prog = "stats" /\ pc = "resolve"
    /\ axis_index < Len(meta_info)
    /\ LET r == ResolveOne(df, At(meta_info, axis_index)) IN
          /\ df' = r.df
          /\ exc' = r.exc
          /\ IF r.exc # None
             THEN pc' = "raised" /\ axis_index' = axis_index
             ELSE pc' = pc /\ axis_index' = axis_index + 1
    /\ UNCHANGED <<prog, parse_vars, multi_vars, asm_vars, meta_info, df0,
                   col_replace_dict, new_columns>>

\* line 51: the first loop is over
StartRename ==
    /\ prog = "stats" /\ pc = "resolve"
    /\ axis_index >= Len(meta_info)
    /\ col_replace_dict' = BaseRenameDict
    /\ axis_index' = 0
    /\ pc' = "rename"
    /\ UNCHANGED <<prog, exc, parse_vars, multi_vars, asm_vars, meta_info,
                   df0, df, new_columns>>

\* lines 52-55: one iteration of the second loop over meta_info
RenameAxis ==
    /\ prog = "stats" /\ pc = "rename"
    /\ axis_index < Len(meta_info)
    /\ LET r == RenameOne(col_replace_dict, At(meta_info, axis_index)) IN
          /\ col_replace_dict' = r.dict
          /\ exc' = r.exc
          /\ IF r.exc # None
             THEN pc' = "raised" /\ axis_index' = axis_index
             ELSE pc' = pc /\ axis_index' = axis_index + 1
    /\ UNCHANGED <<prog, parse_vars, multi_vars, asm_vars, meta_info, df0, df,
                   new_columns>>

\* lines 57-66: the second loop is over
RenameColumns ==
    /\ prog = "stats" /\ pc = "rename"
    /\ axis_index >= Len(meta_info)
    /\ new_columns' = NewColumns(df.columns, col_replace_dict, 0)
    /\ df' = [df EXCEPT !.columns = new_columns']
    /\ pc' = "done"
    /\ UNCHANGED <<prog, exc, parse_vars, multi_vars, asm_vars, meta_info,
                   df0, axis_index, col_replace_dict>>

NextStats ==
    \/ ResolveAxis
    \/ StartRename
    \/ RenameAxis
    \/ RenameColumns

SpecStats == InitStats /\ [][NextStats]_vars

----------------------------------------------------------------------------
(* Properties of kadai6-1.py.                                              *)

\* the first loop (lines 34-48) has iterated every class_obj
ResolveLoopOver == prog = "stats" /\ pc \in {"rename", "done"}

\* the run was ended by an exception raised at one of these lines
RaisedAt(lines) == pc = "raised" /\ exc # None /\ exc[1].line \in lines

\* number of class_obj the first loop has iterated without raising
Resolved ==
    IF pc = "resolve" \/ RaisedAt({37, 43, 45, 48}) THEN axis_index
    ELSE Len(meta_info)

\* the column the k-th class_obj governs, and its code-to-label dict
ColumnOf(k) == "@" \o At(meta_info, k)["@id"]

DictOf(k) == IdToNameDict(At(meta_info, k)["CLASS"]).dict

\* the cell of row r in the column named name, in the table as read and now
Cell0(r, name) == df0.data[r][ColumnIndex(df0.columns, name)]

Cell(r, name) == df.data[r][ColumnIndex(df0.columns, name)]

\* C2 as claimed: once the first loop has iterated every axis, no row is
\* dropped and, for every row and every axis, a value that is not a key of
\* that axis's dict is in the table as it was read.
C2_PassThroughPerAxis ==
    ResolveLoopOver =>
      /\ Len(df.data) = Len(df0.data)
      /\ \A k \in 0..(Len(meta_info) - 1) : \A r \in 1..Len(df0.data) :
            Cell0(r, ColumnOf(k)) \notin DOMAIN DictOf(k)
            => Cell(r, ColumnOf(k)) = Cell0(r, ColumnOf(k))

\* C2 as amended: no row is dropped and, for every row and every coded
\* column, a value that is not a key of the dict of any axis iterated so far
\* that governs the column is in the table as it was read.
C2_PassThrough ==
    prog = "stats" =>
      /\ Len(df.data) = Len(df0.data)
      /\ \A k \in 0..(Resolved - 1) : \A r \in 1..Len(df0.data) :
            (\A j \in 0..(Resolved - 1) :
                ColumnOf(j) = ColumnOf(k)
                => Cell0(r, ColumnOf(k)) \notin DOMAIN DictOf(j))
            => Cell(r, ColumnOf(k)) = Cell0(r, ColumnOf(k))

\* C2 witness: two axes govern the column @tab, the loop has iterated both,
\* the code "9" that neither describes is still there and the code "1" is
\* resolved.
C2_Witness ==
    /\ ResolveLoopOver /\ pc = "rename"
    /\ Len(meta_info) = 2
    /\ ColumnOf(0) = "@tab" /\ ColumnOf(1) = "@tab"
    /\ DOMAIN DictOf(0) = {"1"} /\ DOMAIN DictOf(1) = {"2"}
    /\ Cell(3, "@tab") = "9"
    /\ Cell(1, "@tab") = "Male"

\* C6: an axis whose column the table does not have is tolerated: resolving
\* it never ends the run.
C6_InertAxisTolerated ==
    prog = "stats" => ~RaisedAt({48})

\* C7: malformed metadata is tolerated: an axis without '@id' or '@name',
\* or a CLASS entry without '@code' or '@name', never ends the run.
C7_MalformedTolerated ==
    prog = "stats" => ~RaisedAt({37, 43, 45, 53, 54})

\* the keys the rename mapping is to have: the two fixed columns and the
\* column of every axis
RenameKeys ==
    {"@unit", "$"} \cup { ColumnOf(k) : k \in 0..(Len(meta_info) - 1) }

\* C8: the rename keeps the number and the order of the columns.  When the
\* script is done the new column list is as long as the one read, the keys
\* of the rename mapping are the columns of the axes, '@unit' and '$', and
\* the name at every position is the mapping's for a key and the name read
\* for any other column.
C8_RenameKeepsOrder ==
    (prog = "stats" /\ pc = "done") =>
      /\ Len(new_columns) = Len(df0.columns)
      /\ df.columns = new_columns
      /\ DOMAIN col_replace_dict = RenameKeys
      /\ \A p \in 1..Len(df0.columns) :
            new_columns[p] =
                IF df0.columns[p] \in RenameKeys
                THEN col_replace_dict[df0.columns[p]]
                ELSE df0.columns[p]

\* C8 witness: done with two axes on the same column; the column of the
\* axes carries the name of the second, '$' its fixed label, and '@time',
\* which has no entry, its own name.
C8_Witness ==
    /\ prog = "stats" /\ pc = "done"
    /\ Len(meta_info) = 2
    /\ ColumnOf(0) = "@tab" /\ ColumnOf(1) = "@tab"
    /\ df0.columns = <<"@tab", "@time", "$">>
    /\ new_columns = <<AxisName(2), "@time", "atai">>

----------------------------------------------------------------------------
(* Either script, from its start.                                          *)

Init == InitStats \/ InitParse \/ InitMulti \/ InitAssemble

Next == NextStats \/ NextParse \/ NextMulti \/ NextAssemble

Spec == Init /\ [][Next]_vars

=============================================================================
